---- MODULE Spec2Model ----
(***************************************************************************)
(* Model of the transcription job pipeline of the Museum Interaction       *)
(* Platform backend: the in-memory job registry (routes.py), the request   *)
(* handlers that read and write it, and the background run                 *)
(* process_transcription_job, which executes on a worker thread and whose  *)
(* writes to the registry are therefore interleaved, one assignment at a   *)
(* time, with the handlers.                                                *)
(***************************************************************************)
EXTENDS Integers, Sequences, FiniteSets, Bags, TLC

(* ---- bounds of the model ---- *)
MaxJobs == 1
MaxUploads == 2
MaxFiles == 2
MaxRuns == 2

(* ---- backend/app/api/models.py : JobStatus ---- *)
PENDING == "pending"
PROCESSING == "processing"
COMPLETED == "completed"
FAILED == "failed"
JobStatus == {PENDING, PROCESSING, COMPLETED, FAILED}

(* ---- backend/app/core/config.py : Settings ---- *)
MAX_UPLOAD_SIZE == 100 * 1024 * 1024
ALLOWED_EXTENSIONS == {".jpg", ".jpeg", ".png", ".gif", ".webp", ".bmp"}

(* default of transcribe_batch's batch_size parameter *)
batch_size == 10

(* ---- Python's None and optional values ---- *)
None == <<>>
Some(x) == <<x>>
IsNone(v) == v = <<>>
Val(v) == v[1]

(* ---- the inputs of the model ---- *)
JobIds == 1..MaxUploads

(* A client-supplied filename: the directory part it carries (empty for a  *)
(* plain name), the stem and the suffix as pathlib splits them. "../1"     *)
(* names the upload directory of job 1 from inside any job directory.      *)
FileNames ==
  { [dir |-> "", stem |-> "a", suffix |-> ".jpg"],
    [dir |-> "../1", stem |-> "z", suffix |-> ".PNG"],
    [dir |-> "", stem |-> "c", suffix |-> ".txt"] }

FileSizes == {1024, MAX_UPLOAD_SIZE + 1}

(* every name with a content of allowed size, and one oversize content *)
UploadFiles ==
  { f \in [filename : FileNames, size : FileSizes] :
      f.size > MAX_UPLOAD_SIZE => f.filename.stem = "z" }

SeqsUpTo(S, n) == UNION { [1..k -> S] : k \in 0..n }

(* text returned by the vision service, and descriptions of its failures *)
Texts == {"text"}
ItemErrors == {"service error"}
Timestamps == {"2025-01-01 10:00"}

(* str.lower() on the suffixes that occur *)
lower(s) ==
  CASE s = ".PNG" -> ".png"
    [] s = ".JPG" -> ".jpg"
    [] OTHER -> s

(* Path.name of a path: the last component *)
name(fn) == [stem |-> fn.stem, suffix |-> fn.suffix]

(* job_dir / file.filename: the upload directory the path lies in; ".."   *)
(* leaves job_dir                                                          *)
TargetDir(job_id, fn) ==
  CASE fn.dir = "../1" -> 1
    [] OTHER -> job_id

(* the stems of the image files of a large directory, in sorted order *)
ImageStems ==
  << "img01", "img02", "img03", "img04", "img05", "img06", "img07", "img08",
     "img09", "img10", "img11", "img12", "img13", "img14", "img15", "img16",
     "img17", "img18", "img19", "img20", "img21", "img22" >>

(* position of a file name in the lexicographic order sorted() uses: a, b, *)
(* c, img01 ... img22, z                                                   *)
NameRank(n) ==
  CASE n.stem = "a" -> 1
    [] n.stem = "b" -> 2
    [] n.stem = "c" -> 3
    [] \E k \in DOMAIN ImageStems : ImageStems[k] = n.stem ->
         3 + (CHOOSE k \in DOMAIN ImageStems : ImageStems[k] = n.stem)
    [] OTHER -> 4 + Len(ImageStems)

RECURSIVE sorted(_)
sorted(S) ==
  IF S = {} THEN <<>>
  ELSE LET m == CHOOSE x \in S : \A y \in S : NameRank(x) <= NameRank(y)
       IN <<m>> \o sorted(S \ {m})

VARIABLES
  jobs,         \* routes.jobs: job_id -> job record
  upload_dirs,  \* settings.UPLOAD_DIR: job_id -> set of file names in the directory
  outputs,      \* settings.OUTPUT_DIR: job_id -> set of files written
  runs,         \* bag of the background tasks that have not returned, each with its position and locals
  response,     \* the response the step just taken sent, NoResponse for a step of a run
  generated,    \* settings.OUTPUT_DIR / job_id / "generated_content": job_id -> file name -> content
  requests,     \* the client.messages.create calls the step just taken made, in order, each with what it was for and what the service did
  applied,      \* the arguments of the function call under examination, None when there is none
  returned      \* what that call returned, None before it returns

vars == <<jobs, upload_dirs, outputs, runs, response, generated, requests, applied, returned>>

(* what the handlers and the run of the transcription pipeline never touch *)
apart == <<generated, requests, applied, returned>>

NoResponse ==
  [op |-> "none", job |-> 0, code |-> 0, detail |-> "",
   status |-> "", progress |-> <<0, 1>>, total_images |-> 0,
   processed_images |-> 0, message |-> "",
   results |-> None, compiled_text |-> None,
   content_types |-> <<>>, files |-> <<>>, file |-> None]

Respond(op, j, code, detail) ==
  [NoResponse EXCEPT !.op = op, !.job = j, !.code = code, !.detail = detail]

Init ==
  /\ jobs = <<>>
  /\ upload_dirs = <<>>
  /\ outputs = <<>>
  /\ runs = EmptyBag
  /\ response = NoResponse
  /\ generated = <<>>
  /\ requests = <<>>
  /\ applied = None
  /\ returned = None

(* ---- image_transcriber.py : ImageTranscriber ---- *)

NoName == [stem |-> "", suffix |-> ""]

Line(kind, num, str, fname) ==
  [kind |-> kind, num |-> num, str |-> str, filename |-> fname]

(* transcribe_image: the item returned when the call succeeded with text t *)
SuccessItem(path, t) ==
  [filename |-> path, text |-> t, success |-> TRUE, error |-> "None"]

(* transcribe_image: the item returned when the call raised e *)
FailureItem(path, e) ==
  [filename |-> path, text |-> "", success |-> FALSE, error |-> e]

(* what one call of the vision service does: it returns text or raises *)
Calls ==
  [ok : {TRUE}, text : Texts, error : {"None"}] \cup
  [ok : {FALSE}, text : {""}, error : ItemErrors]

(* transcribe_image: never raises, the failure becomes an item *)
transcribe_image(path, call) ==
  IF call.ok THEN SuccessItem(path, call.text) ELSE FailureItem(path, call.error)

(* a checkpoint that holds the last group of results only *)
BackupFile_group(results, count) ==
  [file |-> "backup_results.json", count |-> count,
   results |-> SubSeq(results, Len(results) - batch_size + 1, Len(results))]

(* the file _save_intermediate_results writes for a running count: the     *)
(* results gathered so far, under the name backup_results_{count}.json     *)
BackupFile(results, count) ==
  [file |-> "backup_results.json", count |-> count, results |-> results]

(* transcribe_batch, lines 187-199, from iteration i on: calls[k] is what  *)
(* the k-th call of the service does and bad_writes the running counts at  *)
(* which the checkpoint write raises                                       *)
RECURSIVE batch_loop(_, _, _, _, _, _)
batch_loop(paths, calls, bad_writes, i, results, backups) ==
  IF i > Len(paths)
  THEN [results |-> results, backups |-> backups, raised |-> FALSE]
  ELSE LET appended == Append(results, transcribe_image(paths[i], calls[i]))
       IN IF i % batch_size = 0
          THEN IF i \in bad_writes
               THEN [results |-> appended, backups |-> backups, raised |-> TRUE]
               ELSE batch_loop(paths, calls, bad_writes, i + 1, appended,
                               backups \cup {BackupFile(appended, i)})
          ELSE batch_loop(paths, calls, bad_writes, i + 1, appended, backups)

(* a transcribe_batch whose loop ends at the first image that failed *)
transcribe_batch_stop_at_failure(paths, calls, bad_writes) ==
  LET failing == { i \in 1..Len(paths) : ~calls[i].ok }
      upto == IF failing = {} THEN Len(paths)
              ELSE CHOOSE i \in failing : \A j \in failing : i <= j
  IN batch_loop(SubSeq(paths, 1, upto), calls, bad_writes, 1, <<>>, {})

transcribe_batch(paths, calls, bad_writes) ==
  batch_loop(paths, calls, bad_writes, 1, <<>>, {})

SuccessCount(results) ==
  Cardinality({ k \in 1..Len(results) : results[k].success })

(* a section that renders every item as a successful one *)
Section_plain(k, result) ==
  << Line("heading", k, "", result.filename),
     Line("blank", 0, "", NoName),
     Line("text", 0, result.text, NoName),
     Line("blank", 0, "", NoName),
     Line("rule", 0, "---", NoName),
     Line("blank", 0, "", NoName) >>

(* the lines compile_results emits for item number k *)
Section(k, result) ==
  IF result.success
  THEN << Line("heading", k, "", result.filename),
          Line("blank", 0, "", NoName),
          Line("text", 0, result.text, NoName),
          Line("blank", 0, "", NoName),
          Line("rule", 0, "---", NoName),
          Line("blank", 0, "", NoName) >>
  ELSE << Line("failed_heading", k, "[FAILED]", result.filename),
          Line("error", 0, result.error, NoName),
          Line("blank", 0, "", NoName),
          Line("rule", 0, "---", NoName),
          Line("blank", 0, "", NoName) >>

RECURSIVE Sections(_, _)
Sections(results, k) ==
  IF k > Len(results) THEN <<>>
  ELSE Section(k, results[k]) \o Sections(results, k + 1)

(* compile_results: the document as its sequence of lines; the title is    *)
(* "Transcription - <job_id>", carried as the job id                       *)
compile_results(results, title, timestamp) ==
  << Line("title", title, "", NoName),
     Line("timestamp", 0, timestamp, NoName),
     Line("total", Len(results), "", NoName),
     Line("successful", SuccessCount(results), "", NoName),
     Line("blank", 0, "", NoName),
     Line("rule", 0, "---", NoName),
     Line("blank", 0, "", NoName) >> \o Sections(results, 1)

(* the empty string process_images returns for an empty directory *)
EmptyText == <<>>

(* ---- backend/app/api/routes.py ---- *)

(* a record for a new job whose processing has already begun *)
NewJob_begun(files) ==
  [status |-> PROCESSING,
   total_images |-> Len(files),
   processed_images |-> 0,
   results |-> None,
   compiled_text |-> None,
   message |-> "Files uploaded, ready to process"]

(* the record upload_images stores for a new job *)
NewJob(files) ==
  [status |-> PENDING,
   total_images |-> Len(files),
   processed_images |-> 0,
   results |-> None,
   compiled_text |-> None,
   message |-> "Files uploaded, ready to process"]

(* background_tasks.add_task(process_transcription_job, job_id, job_dir):  *)
(* a run that has not begun, with the locals of the function               *)
NewRun(job_id) ==
  [job |-> job_id, pc |-> "l27", results |-> <<>>, compiled_text |-> EmptyText,
   exc |-> ""]

(* background_tasks.add_task *)
add_task(run) == runs' = runs (+) SetToBag({run})

(* lines 77-87 from file i on: open(file_path, "wb") creates the file in   *)
(* the directory the path lies in, or raises when that directory does not  *)
(* exist; the size is tested after the file was created. The directories   *)
(* as the loop leaves them and the error that ended it, "" for none.       *)
RECURSIVE save_files(_, _, _, _)
save_files(dirs, job_id, files, i) ==
  IF i > Len(files) THEN [dirs |-> dirs, error |-> ""]
  ELSE LET target == TargetDir(job_id, files[i].filename)
           opened == [dirs EXCEPT ![target] = @ \cup {name(files[i].filename)}]
       IN IF target \notin DOMAIN dirs
          THEN [dirs |-> dirs, error |-> "open failed"]
          ELSE IF files[i].size > MAX_UPLOAD_SIZE
          THEN [dirs |-> opened, error |-> "oversize"]
          ELSE save_files(opened, job_id, files, i + 1)

(* uuid.uuid4(): an identifier no job and no directory uses yet *)
FreshIds == JobIds \ DOMAIN upload_dirs
uuid4 == CHOOSE id \in FreshIds : \A other \in FreshIds : id <= other

(* an upload that registers the job and schedules its run before the files *)
(* are saved and their sizes tested                                        *)
upload_images_register_first(files, max_jobs) ==
  /\ UNCHANGED apart
  /\ FreshIds # {}
  /\ Cardinality(DOMAIN jobs) < max_jobs
  /\ BagCardinality(runs) < MaxRuns
  /\ LET job_id == uuid4
         saved == save_files(upload_dirs @@ (job_id :> {}), job_id, files, 1)
     IN /\ upload_dirs' = saved.dirs
        /\ jobs' = jobs @@ (job_id :> NewJob(files))
        /\ add_task(NewRun(job_id))
        /\ response' = IF saved.error = ""
                       THEN [Respond("upload", job_id, 200, "Files uploaded successfully")
                               EXCEPT !.total_images = Len(files)]
                       ELSE Respond("upload", 0, 400, "File exceeds maximum size")
        /\ UNCHANGED outputs

(* POST /upload, in a registry that holds at most max_jobs jobs *)
upload_images_within(files, max_jobs) ==
  /\ UNCHANGED apart
  /\ IF Len(files) = 0
     THEN /\ response' = Respond("upload", 0, 400, "No files provided")
          /\ UNCHANGED <<jobs, upload_dirs, outputs, runs>>
     ELSE IF \E i \in 1..Len(files) :
               lower(files[i].filename.suffix) \notin ALLOWED_EXTENSIONS
     THEN /\ response' = Respond("upload", 0, 400, "Invalid file type")
          /\ UNCHANGED <<jobs, upload_dirs, outputs, runs>>
     ELSE /\ FreshIds # {}
          /\ LET job_id == uuid4
                 saved == save_files(upload_dirs @@ (job_id :> {}), job_id, files, 1)
             IN /\ upload_dirs' = saved.dirs
                /\ IF saved.error = "oversize"
                   THEN /\ response' = Respond("upload", 0, 400, "File exceeds maximum size")
                        /\ UNCHANGED <<jobs, outputs, runs>>
                   ELSE IF saved.error = "open failed"
                   THEN /\ response' = Respond("upload", 0, 500, "Internal Server Error")
                        /\ UNCHANGED <<jobs, outputs, runs>>
                   ELSE /\ Cardinality(DOMAIN jobs) < max_jobs
                        /\ BagCardinality(runs) < MaxRuns
                        /\ jobs' = jobs @@ (job_id :> NewJob(files))
                        /\ add_task(NewRun(job_id))
                        /\ response' = [Respond("upload", job_id, 200, "Files uploaded successfully")
                                          EXCEPT !.total_images = Len(files)]
                        /\ UNCHANGED outputs

(* POST /upload *)
upload_images(files) == upload_images_within(files, MaxJobs)

(* POST /transcribe/{job_id} *)
start_transcription(job_id) ==
  /\ UNCHANGED apart
  /\ IF job_id \notin DOMAIN jobs
     THEN /\ response' = Respond("start", job_id, 404, "Job not found")
          /\ UNCHANGED <<jobs, upload_dirs, outputs, runs>>
     ELSE IF jobs[job_id].status # PENDING
     THEN /\ response' = Respond("start", job_id, 400, "Job already processed or processing")
          /\ UNCHANGED <<jobs, upload_dirs, outputs, runs>>
     ELSE IF job_id \notin DOMAIN upload_dirs
     THEN /\ response' = Respond("start", job_id, 404, "Upload directory not found")
          /\ UNCHANGED <<jobs, upload_dirs, outputs, runs>>
     ELSE /\ BagCardinality(runs) < MaxRuns
          /\ add_task(NewRun(job_id))
          /\ response' = Respond("start", job_id, 200, "Transcription started")
          /\ UNCHANGED <<jobs, upload_dirs, outputs>>

(* progress = processed_images / total_images * 100, kept as a fraction *)
Progress(job) ==
  IF job.total_images > 0
  THEN <<job.processed_images * 100, job.total_images>>
  ELSE <<0, 1>>

(* the JobStatusResponse get_job_status builds *)
JobStatusResponse(job_id, job) ==
  [Respond("status", job_id, 200, "") EXCEPT
     !.status = job.status,
     !.progress = Progress(job),
     !.total_images = job.total_images,
     !.processed_images = job.processed_images,
     !.message = job.message]

(* get_job_status that records the poll in the job it reads *)
get_job_status_touch(job_id) ==
  /\ response' = IF job_id \notin DOMAIN jobs
                 THEN Respond("status", job_id, 404, "Job not found")
                 ELSE JobStatusResponse(job_id, jobs[job_id])
  /\ jobs' = IF job_id \notin DOMAIN jobs THEN jobs
             ELSE [jobs EXCEPT ![job_id].message = "Status requested"]
  /\ UNCHANGED <<upload_dirs, outputs, runs>>
  /\ UNCHANGED apart

(* GET /job/{job_id}/status *)
get_job_status(job_id) ==
  /\ response' = IF job_id \notin DOMAIN jobs
                 THEN Respond("status", job_id, 404, "Job not found")
                 ELSE JobStatusResponse(job_id, jobs[job_id])
  /\ UNCHANGED <<jobs, upload_dirs, outputs, runs>>
  /\ UNCHANGED apart

(* the JobResultsResponse get_job_results builds; iterating job["results"] *)
(* while it is still None raises TypeError, which the framework turns into *)
(* a 500 response                                                          *)
JobResultsResponse(job_id, job) ==
  IF IsNone(job.results)
  THEN Respond("results", job_id, 500, "Internal Server Error")
  ELSE [Respond("results", job_id, 200, "") EXCEPT
          !.status = job.status,
          !.results = job.results,
          !.compiled_text = job.compiled_text]

(* GET /job/{job_id}/results *)
get_job_results(job_id) ==
  /\ response' = IF job_id \notin DOMAIN jobs
                 THEN Respond("results", job_id, 404, "Job not found")
                 ELSE IF jobs[job_id].status # COMPLETED
                 THEN Respond("results", job_id, 400, "Job not completed yet")
                 ELSE JobResultsResponse(job_id, jobs[job_id])
  /\ UNCHANGED <<jobs, upload_dirs, outputs, runs>>
  /\ UNCHANGED apart

(* ---- backend/app/services/transcriber.py ---- *)

TxtFile == [file |-> "transcription.txt", count |-> 0, results |-> <<>>]
MdFile == [file |-> "transcription.md", count |-> 0, results |-> <<>>]

(* process_images, lines 41-45: the sorted image files of the directory *)
image_paths(dir) ==
  sorted({ p \in dir : lower(p.suffix) \in ALLOWED_EXTENSIONS })

(* what save_output leaves on disk: both renderings, or what was written   *)
(* before a write raised                                                   *)
SaveOutcomes == {"saved", "txt write failed", "md write failed"}

save_output(outcome) ==
  CASE outcome = "saved" -> {TxtFile, MdFile}
    [] outcome = "md write failed" -> {TxtFile}
    [] OTHER -> {}

(* process_images: the value returned (results, compiled_text), the files  *)
(* written and the exception raised, "" for none                           *)
process_images(job_id, dir, calls, bad_writes, timestamp, save) ==
  LET paths == image_paths(dir)
      batch == transcribe_batch(paths, calls, bad_writes)
  IN IF paths = <<>>
     THEN [results |-> <<>>, compiled_text |-> EmptyText, files |-> {}, exc |-> ""]
     ELSE IF batch.raised
     THEN [results |-> <<>>, compiled_text |-> EmptyText, files |-> batch.backups,
           exc |-> "checkpoint write failed"]
     ELSE [results |-> batch.results,
           compiled_text |-> compile_results(batch.results, job_id, timestamp),
           files |-> batch.backups \cup save_output(save),
           exc |-> IF save = "saved" THEN "" ELSE "save failed"]

(* ---- process_transcription_job, one step per statement ---- *)

Scheduled == BagToSet(runs)
At(run, pc) == run \in Scheduled /\ run.pc = pc

(* str(e) of the exceptions the pipeline can raise, and the message        *)
(* f"Error: {str(e)}" line 41 stores                                       *)
ErrorMessage(e) ==
  CASE e = "setup failed" -> "Error: setup failed"
    [] e = "checkpoint write failed" -> "Error: checkpoint write failed"
    [] e = "save failed" -> "Error: save failed"
    [] OTHER -> "Error: "

(* the run moves on with new locals *)
Becomes(run, new) == runs' = (runs (-) SetToBag({run})) (+) SetToBag({new})

Goto(run, pc) == Becomes(run, [run EXCEPT !.pc = pc])

(* an exception leaves the try block for the handler at line 39 *)
Raise(run, e) == Becomes(run, [run EXCEPT !.pc = "l40", !.exc = e])

(* the function returns *)
Return(run) == runs' = runs (-) SetToBag({run})

(* a first statement that marks every job of the registry as processing *)
line27_every_job(run) ==
  /\ response' = NoResponse
  /\ At(run, "l27")
  /\ jobs' = [id \in DOMAIN jobs |-> [jobs[id] EXCEPT !.status = PROCESSING]]
  /\ Goto(run, "l28")
  /\ UNCHANGED <<upload_dirs, outputs>>
  /\ UNCHANGED apart

(* line 27: jobs[job_id]["status"] = JobStatus.PROCESSING *)
line27(run) ==
  /\ response' = NoResponse
  /\ At(run, "l27")
  /\ jobs' = [jobs EXCEPT ![run.job].status = PROCESSING]
  /\ Goto(run, "l28")
  /\ UNCHANGED <<upload_dirs, outputs>>
  /\ UNCHANGED apart

(* line 28: jobs[job_id]["message"] = "Processing images..." *)
line28(run) ==
  /\ response' = NoResponse
  /\ At(run, "l28")
  /\ jobs' = [jobs EXCEPT ![run.job].message = "Processing images..."]
  /\ Goto(run, "l30")
  /\ UNCHANGED <<upload_dirs, outputs>>
  /\ UNCHANGED apart

(* the running counts at which transcribe_batch writes a checkpoint *)
CheckpointCounts(n) == { i \in 1..n : i % batch_size = 0 }

(* what the service does over the n calls of a batch: every combination of *)
(* answers and failures for a list shorter than a group; for a longer list *)
(* all calls answered, the first or the last call failed, or all calls     *)
(* failed                                                                  *)
ServiceCalls(n) ==
  LET answered == [ok |-> TRUE, text |-> "text", error |-> "None"]
      failed == [ok |-> FALSE, text |-> "", error |-> "service error"]
  IN IF n < batch_size THEN [1..n -> Calls]
     ELSE { [k \in 1..n |-> IF k = j THEN failed ELSE answered] : j \in {0, 1, n} }
            \cup { [k \in 1..n |-> failed] }

(* lines 30-31: TranscriptionService(job_id), which creates the output     *)
(* directory of the job or raises, then service.process_images(image_dir)  *)
line31(run) ==
  /\ response' = NoResponse
  /\ At(run, "l30")
  /\ LET dir == upload_dirs[run.job]
         n == Len(image_paths(dir))
         written == IF run.job \in DOMAIN outputs THEN outputs[run.job] ELSE {}
     IN \/ /\ Raise(run, "setup failed")
           /\ UNCHANGED outputs
        \/ \E calls \in ServiceCalls(n), bad_writes \in SUBSET CheckpointCounts(n),
              timestamp \in Timestamps, save \in SaveOutcomes :
             LET out == process_images(run.job, dir, calls, bad_writes, timestamp, save)
             IN /\ outputs' = [id \in DOMAIN outputs \cup {run.job} |->
                                 IF id = run.job THEN written \cup out.files
                                 ELSE outputs[id]]
                /\ IF out.exc # ""
                   THEN Raise(run, out.exc)
                   ELSE Becomes(run, [run EXCEPT !.results = out.results,
                                                 !.compiled_text = out.compiled_text,
                                                 !.pc = "l33"])
  /\ UNCHANGED <<jobs, upload_dirs>>
  /\ UNCHANGED apart

(* line 33: jobs[job_id]["status"] = JobStatus.COMPLETED *)
line33(run) ==
  /\ response' = NoResponse
  /\ At(run, "l33")
  /\ jobs' = [jobs EXCEPT ![run.job].status = COMPLETED]
  /\ Goto(run, "l34")
  /\ UNCHANGED <<upload_dirs, outputs>>
  /\ UNCHANGED apart

(* line 34: jobs[job_id]["results"] = results *)
line34(run) ==
  /\ response' = NoResponse
  /\ At(run, "l34")
  /\ jobs' = [jobs EXCEPT ![run.job].results = Some(run.results)]
  /\ Goto(run, "l35")
  /\ UNCHANGED <<upload_dirs, outputs>>
  /\ UNCHANGED apart

(* line 35: jobs[job_id]["compiled_text"] = compiled_text *)
line35(run) ==
  /\ response' = NoResponse
  /\ At(run, "l35")
  /\ jobs' = [jobs EXCEPT ![run.job].compiled_text = Some(run.compiled_text)]
  /\ Goto(run, "l36")
  /\ UNCHANGED <<upload_dirs, outputs>>
  /\ UNCHANGED apart

(* line 36: jobs[job_id]["processed_images"] = len(results) *)
line36(run) ==
  /\ response' = NoResponse
  /\ At(run, "l36")
  /\ jobs' = [jobs EXCEPT ![run.job].processed_images = Len(run.results)]
  /\ Goto(run, "l37")
  /\ UNCHANGED <<upload_dirs, outputs>>
  /\ UNCHANGED apart

(* line 37: jobs[job_id]["message"] = "Transcription completed successfully" *)
line37(run) ==
  /\ response' = NoResponse
  /\ At(run, "l37")
  /\ jobs' = [jobs EXCEPT ![run.job].message = "Transcription completed successfully"]
  /\ Return(run)
  /\ UNCHANGED <<upload_dirs, outputs>>
  /\ UNCHANGED apart

(* an exception handler that records the message only *)
line40_keep_status(run) ==
  /\ response' = NoResponse
  /\ At(run, "l40")
  /\ Goto(run, "l41")
  /\ UNCHANGED <<jobs, upload_dirs, outputs>>
  /\ UNCHANGED apart

(* line 40: jobs[job_id]["status"] = JobStatus.FAILED *)
line40(run) ==
  /\ response' = NoResponse
  /\ At(run, "l40")
  /\ jobs' = [jobs EXCEPT ![run.job].status = FAILED]
  /\ Goto(run, "l41")
  /\ UNCHANGED <<upload_dirs, outputs>>
  /\ UNCHANGED apart

(* line 41: jobs[job_id]["message"] = f"Error: {str(e)}" *)
line41(run) ==
  /\ response' = NoResponse
  /\ At(run, "l41")
  /\ jobs' = [jobs EXCEPT ![run.job].message = ErrorMessage(run.exc)]
  /\ Return(run)
  /\ UNCHANGED <<upload_dirs, outputs>>
  /\ UNCHANGED apart

(* one step of a background run *)
process_transcription_job(run) ==
  \/ line27(run)
  \/ line28(run)
  \/ line31(run)
  \/ line33(run)
  \/ line34(run)
  \/ line35(run)
  \/ line36(run)
  \/ line37(run)
  \/ line40(run)
  \/ line41(run)

Next ==
  \/ \E files \in SeqsUpTo(UploadFiles, MaxFiles) : upload_images(files)
  \/ \E job_id \in JobIds : start_transcription(job_id)
  \/ \E job_id \in JobIds : get_job_status(job_id)
  \/ \E job_id \in JobIds : get_job_results(job_id)
  \/ \E run \in Scheduled : line27(run)
  \/ \E run \in Scheduled : line28(run)
  \/ \E run \in Scheduled : line31(run)
  \/ \E run \in Scheduled : line33(run)
  \/ \E run \in Scheduled : line34(run)
  \/ \E run \in Scheduled : line35(run)
  \/ \E run \in Scheduled : line36(run)
  \/ \E run \in Scheduled : line37(run)
  \/ \E run \in Scheduled : line40(run)
  \/ \E run \in Scheduled : line41(run)

Spec == Init /\ [][Next]_vars

(* every worker thread that has a statement to execute executes it *)
FairSpec == Spec /\ WF_vars(\E run \in Scheduled : process_transcription_job(run))
(* ---- transcribe_batch applied to a list of images ---- *)

MaxBatch == 10

(* the list of n image paths handed to transcribe_batch: process_images    *)
(* passes a sorted list, other callers any list                            *)
ImagePaths(n, order) ==
  [k \in 1..n |->
     [stem |-> ImageStems[IF order = "sorted" THEN k ELSE n + 1 - k],
      suffix |-> ".jpg"]]

(* a call of transcribe_batch about to be made: its argument, and what     *)
(* each call of the service and each checkpoint write will do              *)
BatchInit ==
  /\ jobs = <<>>
  /\ upload_dirs = <<>>
  /\ outputs = <<>>
  /\ runs = EmptyBag
  /\ response = NoResponse
  /\ generated = <<>>
  /\ requests = <<>>
  /\ \E n \in 0..MaxBatch, order \in {"sorted", "reversed"} :
       \E calls \in [1..n -> Calls], bad_writes \in SUBSET CheckpointCounts(n) :
         applied = Some([paths |-> ImagePaths(n, order), calls |-> calls,
                         bad_writes |-> bad_writes])
  /\ returned = None

(* results = transcriber.transcribe_batch(image_paths) *)
call_transcribe_batch ==
  /\ IsNone(returned)
  /\ returned' = Some(transcribe_batch(Val(applied).paths, Val(applied).calls,
                                       Val(applied).bad_writes))
  /\ UNCHANGED <<jobs, upload_dirs, outputs, runs, response, generated, requests, applied>>

BatchNext == call_transcribe_batch

BatchSpec == BatchInit /\ [][BatchNext]_vars

(* ---- transcribe_batch applied to a list of several groups ---- *)

MaxImages == 21

(* a call of transcribe_batch on up to MaxImages images *)
CheckpointInit ==
  /\ jobs = <<>>
  /\ upload_dirs = <<>>
  /\ outputs = <<>>
  /\ runs = EmptyBag
  /\ response = NoResponse
  /\ generated = <<>>
  /\ requests = <<>>
  /\ \E n \in 0..MaxImages :
       \E calls \in ServiceCalls(n), bad_writes \in SUBSET CheckpointCounts(n) :
         applied = Some([paths |-> ImagePaths(n, "sorted"), calls |-> calls,
                         bad_writes |-> bad_writes])
  /\ returned = None

CheckpointNext == call_transcribe_batch

CheckpointSpec == CheckpointInit /\ [][CheckpointNext]_vars

(* ---- backend/app/api/models.py : ContentType ---- *)
FLASHCARDS == "flashcards"
INFOGRAPHICS == "infographics"
VIDEO_SCRIPT == "video_script"
PODCAST == "podcast"
ContentType == {FLASHCARDS, INFOGRAPHICS, VIDEO_SCRIPT, PODCAST}

(* ---- backend/app/services/content_generator.py ---- *)

(* A response text of the model is a sequence of tokens: the fence of      *)
(* three backticks, a language tag, a newline, a run of prose, or a whole  *)
(* JSON document. "cut" is what is left of a token that lost its last      *)
(* character.                                                              *)
FENCE == "<three backticks>"
NEWLINE == "\n"
Prose == "Here are the flashcards."
Cut == "cut"

(* JSON documents the model may answer with: an object with a list of card *)
(* objects, an array, and an object whose cards are strings                *)
CardsDocument == "{flashcards: [{question: Q, answer: A, category: C}]}"
ArrayDocument == "[{question: Q, answer: A}]"
StringCardsDocument == "{flashcards: [Q - A]}"
JsonDocuments == {CardsDocument, ArrayDocument, StringCardsDocument}

(* str.find(sub, start) on token positions counted from 1: the first       *)
(* position from start on at which sub occurs, 0 (Python's -1) for none    *)
find(text, sub, start) ==
  LET hits == { i \in start..(Len(text) - Len(sub) + 1) :
                  SubSeq(text, i, i + Len(sub) - 1) = sub }
  IN IF hits = {} THEN 0
     ELSE CHOOSE i \in hits : \A j \in hits : i <= j

(* sub in text *)
contains(text, sub) == find(text, sub, 1) # 0

(* text[start:end_]: up to the token before end_; for end_ = -1 (nothing   *)
(* found) up to the last character of the text, which removes a final      *)
(* newline and cuts any other final token                                  *)
slice(text, start, end_) ==
  IF end_ # 0 THEN SubSeq(text, start, end_ - 1)
  ELSE IF start > Len(text) THEN <<>>
  ELSE IF text[Len(text)] = NEWLINE THEN SubSeq(text, start, Len(text) - 1)
  ELSE SubSeq(text, start, Len(text) - 1) \o <<Cut>>

(* str.strip(): without the whitespace at both ends *)
strip(text) ==
  LET solid == { i \in 1..Len(text) : text[i] # NEWLINE }
  IN IF solid = {} THEN <<>>
     ELSE SubSeq(text, CHOOSE i \in solid : \A j \in solid : i <= j,
                       CHOOSE i \in solid : \A j \in solid : i >= j)

(* an extraction that takes an unclosed block up to the end of the         *)
(* response                                                                *)
json_text_to_end(response_text) ==
  LET tagged == contains(response_text, <<FENCE, "json">>)
      json_start == IF tagged THEN find(response_text, <<FENCE, "json">>, 1) + 2
                    ELSE find(response_text, <<FENCE>>, 1) + 1
      json_end == find(response_text, <<FENCE>>, json_start)
  IN IF ~contains(response_text, <<FENCE>>) THEN response_text
     ELSE IF json_end = 0
     THEN strip(SubSeq(response_text, json_start, Len(response_text)))
     ELSE strip(slice(response_text, json_start, json_end))

(* lines 69-78: the part of the response handed to json.loads *)
json_text(response_text) ==
  IF contains(response_text, <<FENCE, "json">>)
  THEN LET json_start == find(response_text, <<FENCE, "json">>, 1) + 2
           json_end == find(response_text, <<FENCE>>, json_start)
       IN strip(slice(response_text, json_start, json_end))
  ELSE IF contains(response_text, <<FENCE>>)
  THEN LET json_start == find(response_text, <<FENCE>>, 1) + 1
           json_end == find(response_text, <<FENCE>>, json_start)
       IN strip(slice(response_text, json_start, json_end))
  ELSE response_text

(* json.loads: one JSON document, whitespace around it allowed; anything   *)
(* else raises JSONDecodeError                                             *)
json_loads(text) ==
  LET document == strip(text)
  IN IF Len(document) = 1 /\ document[1] \in JsonDocuments
     THEN [ok |-> TRUE, value |-> document[1]]
     ELSE [ok |-> FALSE, value |-> ""]

(* line 80: flashcards_data, or the failure of json.loads *)
flashcards_data(response_text) == json_loads(json_text(response_text))

(* whether flashcards_data.get('flashcards', []) and card.get(...) of      *)
(* lines 92-95 work on the parsed value: it is a dict whose cards are      *)
(* dicts                                                                   *)
IsCardsObject(value) == value = CardsDocument

(* the files of a generated_content directory, by what was written *)
RawFile(text) == [kind |-> "raw", text |-> text, data |-> ""]
JsonFile(value) == [kind |-> "json.dump", text |-> <<>>, data |-> value]
CardsFile(value) == [kind |-> "cards", text |-> <<>>, data |-> value]

(* open(path, 'w') and write: the directory with the file replaced *)
write(files, path, content) ==
  [f \in DOMAIN files \cup {path} |-> IF f = path THEN content ELSE files[f]]

(* what client.messages.create does: it returns a text or raises *)
ServiceError == "service error"
ParseFailure == "Failed to parse flashcards JSON"
ScriptText == <<Prose>>

(* a generate_flashcards whose fallback file holds the extracted text, not *)
(* the response                                                            *)
generate_flashcards_save_extract(files, reply) ==
  LET parsed == flashcards_data(reply.text)
      with_json == write(files, "flashcards.json", JsonFile(parsed.value))
  IN IF ~reply.ok
     THEN [files |-> files, path |-> "", exc |-> ServiceError]
     ELSE IF ~parsed.ok
     THEN [files |-> write(files, "flashcards.txt", RawFile(json_text(reply.text))),
           path |-> "", exc |-> ParseFailure]
     ELSE IF ~IsCardsObject(parsed.value)
     THEN [files |-> write(with_json, "flashcards.txt", RawFile(reply.text)),
           path |-> "", exc |-> ParseFailure]
     ELSE [files |-> write(with_json, "flashcards.txt", CardsFile(parsed.value)),
           path |-> "flashcards.json", exc |-> ""]

(* generate_flashcards, lines 58-102: the directory as the call leaves it, *)
(* the path returned and the exception raised, "" for none                 *)
generate_flashcards(files, reply) ==
  LET parsed == flashcards_data(reply.text)
      with_json == write(files, "flashcards.json", JsonFile(parsed.value))
  IN IF ~reply.ok
     THEN [files |-> files, path |-> "", exc |-> ServiceError]
     ELSE IF ~parsed.ok
     THEN [files |-> write(files, "flashcards.txt", RawFile(reply.text)),
           path |-> "", exc |-> ParseFailure]
     ELSE IF ~IsCardsObject(parsed.value)
     THEN [files |-> write(with_json, "flashcards.txt", RawFile(reply.text)),
           path |-> "", exc |-> ParseFailure]
     ELSE [files |-> write(with_json, "flashcards.txt", CardsFile(parsed.value)),
           path |-> "flashcards.json", exc |-> ""]

(* generate_infographic_text, generate_video_script and                    *)
(* generate_podcast_format: the text of the model written to path          *)
generate_text(files, path, reply) ==
  IF ~reply.ok
  THEN [files |-> files, path |-> "", exc |-> ServiceError]
  ELSE [files |-> write(files, path, RawFile(reply.text)), path |-> path, exc |-> ""]

(* lines 260-271: the file of a content type and its generator *)
FilePath(content_type) ==
  CASE content_type = FLASHCARDS -> "flashcards.json"
    [] content_type = INFOGRAPHICS -> "infographic.md"
    [] content_type = VIDEO_SCRIPT -> "video_script.txt"
    [] OTHER -> "podcast_script.txt"

generate(files, content_type, reply) ==
  IF content_type = FLASHCARDS THEN generate_flashcards(files, reply)
  ELSE generate_text(files, FilePath(content_type), reply)

(* ContentGenerator.generate_content, lines 259-273, from the i-th        *)
(* requested type on: replies[k] is what the service does with the k-th    *)
(* request. The directory as the loop leaves it, the mapping built so far, *)
(* the requests sent and the exception that ended the loop, "" for none.   *)
RECURSIVE content_loop(_, _, _, _, _, _)
content_loop(files, content_types, replies, i, generated_files, asked) ==
  IF i > Len(content_types)
  THEN [files |-> files, generated_files |-> generated_files, asked |-> asked,
        exc |-> ""]
  ELSE LET out == generate(files, content_types[i], replies[i])
           now_asked == Append(asked, [content_type |-> content_types[i],
                                       reply |-> replies[i]])
       IN IF out.exc # ""
          THEN [files |-> out.files, generated_files |-> generated_files,
                asked |-> now_asked, exc |-> out.exc]
          ELSE content_loop(out.files, content_types, replies, i + 1,
                            (content_types[i] :> out.path) @@ generated_files,
                            now_asked)

(* a generate_content that returns from inside the loop, after the first   *)
(* requested type                                                          *)
ContentGenerator_generate_first(files, content_types, replies) ==
  content_loop(files, IF content_types = <<>> THEN <<>> ELSE <<content_types[1]>>,
               replies, 1, <<>>, <<>>)

(* ContentGenerator.generate_content: output_dir exists from line 256 on *)
ContentGenerator_generate_content(files, content_types, replies) ==
  content_loop(files, content_types, replies, 1, <<>>, <<>>)

(* ---- backend/app/api/routes.py : content generation and download ---- *)

(* f"Content generation failed: {str(e)}" *)
FailureDetail(e) ==
  CASE e = ParseFailure -> "Content generation failed: Failed to parse flashcards JSON"
    [] e = ServiceError -> "Content generation failed: service error"
    [] OTHER -> "Content generation failed: "

(* the generated_content directory of a job, empty when it does not exist *)
GeneratedDir(job_id) ==
  IF job_id \in DOMAIN generated THEN generated[job_id] ELSE <<>>

(* a handler that notes the request in the record of the job *)
generate_content_noted(job_id, content_types, replies) ==
  /\ UNCHANGED <<upload_dirs, outputs, runs, generated, applied, returned>>
  /\ requests' = <<>>
  /\ jobs' = [id \in DOMAIN jobs |->
                IF id = job_id THEN [jobs[id] EXCEPT !.message = "Content requested"]
                ELSE jobs[id]]
  /\ response' = IF job_id \in DOMAIN jobs
                 THEN Respond("generate", job_id, 400, "Transcription must be completed first")
                 ELSE Respond("generate", job_id, 404, "Job not found")

(* a handler that generates the content whatever the status of the job *)
generate_content_unguarded(job_id, content_types, replies) ==
  /\ UNCHANGED <<jobs, upload_dirs, outputs, runs, applied, returned>>
  /\ IF job_id \notin DOMAIN jobs
     THEN /\ response' = Respond("generate", job_id, 404, "Job not found")
          /\ requests' = <<>>
          /\ UNCHANGED generated
     ELSE LET out == ContentGenerator_generate_content(GeneratedDir(job_id),
                                                       content_types, replies)
          IN /\ generated' = [id \in DOMAIN generated \cup {job_id} |->
                                IF id = job_id THEN out.files ELSE generated[id]]
             /\ requests' = out.asked
             /\ response' =
                  IF out.exc = ""
                  THEN [Respond("generate", job_id, 200, "Content generated successfully")
                          EXCEPT !.content_types = content_types,
                                 !.files = out.generated_files]
                  ELSE Respond("generate", job_id, 500, FailureDetail(out.exc))

(* POST /generate-content *)
generate_content(job_id, content_types, replies) ==
  /\ UNCHANGED <<jobs, upload_dirs, outputs, runs, applied, returned>>
  /\ IF job_id \notin DOMAIN jobs
     THEN /\ response' = Respond("generate", job_id, 404, "Job not found")
          /\ requests' = <<>>
          /\ UNCHANGED generated
     ELSE IF jobs[job_id].status # COMPLETED
     THEN /\ response' = Respond("generate", job_id, 400, "Transcription must be completed first")
          /\ requests' = <<>>
          /\ UNCHANGED generated
     ELSE IF IsNone(jobs[job_id].compiled_text)
             \/ Val(jobs[job_id].compiled_text) = EmptyText
     THEN /\ response' = Respond("generate", job_id, 400, "No transcription text available")
          /\ requests' = <<>>
          /\ UNCHANGED generated
     ELSE LET out == ContentGenerator_generate_content(GeneratedDir(job_id),
                                                       content_types, replies)
          IN /\ generated' = [id \in DOMAIN generated \cup {job_id} |->
                                IF id = job_id THEN out.files ELSE generated[id]]
             /\ requests' = out.asked
             /\ response' =
                  IF out.exc = ""
                  THEN [Respond("generate", job_id, 200, "Content generated successfully")
                          EXCEPT !.content_types = content_types,
                                 !.files = out.generated_files]
                  ELSE Respond("generate", job_id, 500, FailureDetail(out.exc))

(* the file types download_file knows, and one it does not *)
FileTypes == {"transcription"} \cup ContentType \cup {"notes"}

(* the content of transcription.txt as a download *)
TranscriptionFile == [kind |-> "transcription", text |-> <<>>, data |-> ""]

(* lines 255-269: the file a type names, None when it does not exist *)
DownloadPath(job_id, file_type) ==
  IF file_type = "transcription"
  THEN IF job_id \in DOMAIN outputs /\ TxtFile \in outputs[job_id]
       THEN Some(TranscriptionFile) ELSE None
  ELSE IF FilePath(file_type) \in DOMAIN GeneratedDir(job_id)
       THEN Some(GeneratedDir(job_id)[FilePath(file_type)]) ELSE None

(* GET /download/{job_id}/{file_type} *)
download_file(job_id, file_type) ==
  /\ UNCHANGED <<jobs, upload_dirs, outputs, runs, generated, applied, returned>>
  /\ requests' = <<>>
  /\ response' =
       IF job_id \notin DOMAIN jobs
       THEN Respond("download", job_id, 404, "Job not found")
       ELSE IF file_type \notin {"transcription"} \cup ContentType
       THEN Respond("download", job_id, 400, "Invalid file type")
       ELSE IF IsNone(DownloadPath(job_id, file_type))
       THEN Respond("download", job_id, 404, "File not found")
       ELSE [Respond("download", job_id, 200, file_type)
               EXCEPT !.file = DownloadPath(job_id, file_type)]

(* ---- content generation for an uploaded job ---- *)

MaxTypes == 2

(* the job of one uploaded image a.jpg as the run of the pipeline leaves   *)
(* it: not begun, after line 28, after line 33, returned from line 37 and  *)
(* returned from line 41; and, for a directory found empty, returned from  *)
(* line 37 with no result                                                  *)
UploadedFile ==
  [filename |-> [dir |-> "", stem |-> "a", suffix |-> ".jpg"], size |-> 1024]

UploadedResults == <<SuccessItem(name(UploadedFile.filename), "text")>>

JobAfter(pc) ==
  LET begun == [NewJob(<<UploadedFile>>) EXCEPT !.status = PROCESSING,
                                                !.message = "Processing images..."]
      done == [begun EXCEPT !.status = COMPLETED,
                            !.processed_images = 1,
                            !.message = "Transcription completed successfully"]
  IN CASE pc = "l27" -> NewJob(<<UploadedFile>>)
       [] pc = "l30" -> begun
       [] pc = "l34" -> [begun EXCEPT !.status = COMPLETED]
       [] pc = "returned" ->
            [done EXCEPT !.results = Some(UploadedResults),
                         !.compiled_text =
                            Some(compile_results(UploadedResults, 1, "2025-01-01 10:00"))]
       [] pc = "returned empty" ->
            [done EXCEPT !.results = Some(<<>>),
                         !.compiled_text = Some(EmptyText),
                         !.processed_images = 0]
       [] OTHER -> [begun EXCEPT !.status = FAILED, !.message = "Error: setup failed"]

RunPositions == {"l27", "l30", "l34", "returned", "returned empty", "raised"}

ContentInit ==
  /\ \E pc \in RunPositions :
       /\ jobs = (1 :> JobAfter(pc))
       /\ upload_dirs = (1 :> (IF pc = "returned empty" THEN {}
                               ELSE {name(UploadedFile.filename)}))
       /\ outputs = (IF pc \in {"l34", "returned"} THEN (1 :> {TxtFile, MdFile})
                     ELSE IF pc = "returned empty" THEN (1 :> {})
                     ELSE <<>>)
       /\ runs = (IF pc \in {"l27", "l30", "l34"}
                  THEN SetToBag({[NewRun(1) EXCEPT
                                    !.pc = pc,
                                    !.results = IF pc = "l34" THEN UploadedResults ELSE <<>>,
                                    !.compiled_text =
                                       IF pc = "l34"
                                       THEN compile_results(UploadedResults, 1, "2025-01-01 10:00")
                                       ELSE EmptyText]})
                  ELSE EmptyBag)
  /\ response = NoResponse
  /\ generated = <<>>
  /\ requests = <<>>
  /\ applied = None
  /\ returned = None

(* what the service does with one request: it raises, or answers a text    *)
FlashcardTexts ==
  { <<FENCE, "json", NEWLINE, CardsDocument, NEWLINE, FENCE>>,
    <<ArrayDocument>>,
    <<Prose>> }

Replies(content_type) ==
  [ok : {FALSE}, text : {<<>>}] \cup
  [ok : {TRUE}, text : IF content_type = FLASHCARDS THEN FlashcardTexts
                       ELSE {ScriptText}]

AnyReplies == UNION { Replies(content_type) : content_type \in ContentType }

RepliesTo(content_types) ==
  { replies \in [1..Len(content_types) -> AnyReplies] :
      \A i \in 1..Len(content_types) : replies[i] \in Replies(content_types[i]) }

(* a service that is down *)
NoReplies(content_types) ==
  [i \in 1..Len(content_types) |-> [ok |-> FALSE, text |-> <<>>]]

(* a request names a registered job with any behaviour of the service, or  *)
(* an unknown job                                                          *)
ContentNext ==
  \/ \E job_id \in JobIds, content_types \in SeqsUpTo(ContentType, MaxTypes) :
       \E replies \in (IF job_id \in DOMAIN jobs THEN RepliesTo(content_types)
                       ELSE {NoReplies(content_types)}) :
         generate_content(job_id, content_types, replies)
  \/ \E job_id \in JobIds, file_type \in FileTypes : download_file(job_id, file_type)

ContentSpec == ContentInit /\ [][ContentNext]_vars

(* ---- the flashcards parser applied to a response of the model ---- *)

(* the language tag after the opening fence: json, none, or another *)
LanguageTags == {"json", "", "javascript"}

(* a fenced code block around a document: its tag, whether prose precedes  *)
(* and follows the block, and whether the fences stand on lines of their   *)
(* own                                                                     *)
Wrappings ==
  [tag : LanguageTags, before : BOOLEAN, after : BOOLEAN, newlines : BOOLEAN]

fenced(payload, w) ==
  (IF w.before THEN <<Prose, NEWLINE>> ELSE <<>>)
    \o <<FENCE>>
    \o (IF w.tag = "" THEN <<>> ELSE <<w.tag>>)
    \o (IF w.newlines THEN <<NEWLINE>> ELSE <<>>)
    \o <<payload>>
    \o (IF w.newlines THEN <<NEWLINE>> ELSE <<>>)
    \o <<FENCE>>
    \o (IF w.after THEN <<NEWLINE, Prose>> ELSE <<>>)

ParserInit ==
  /\ jobs = <<>>
  /\ upload_dirs = <<>>
  /\ outputs = <<>>
  /\ runs = EmptyBag
  /\ response = NoResponse
  /\ generated = <<>>
  /\ requests = <<>>
  /\ \E payload \in JsonDocuments, w \in Wrappings :
       applied = Some([payload |-> payload, wrapping |-> w])
  /\ returned = None

(* lines 67-80 run on the bare document and on the document in its fence *)
call_flashcards_data ==
  /\ IsNone(returned)
  /\ returned' = Some([bare |-> flashcards_data(<<Val(applied).payload>>),
                       fenced |-> flashcards_data(fenced(Val(applied).payload,
                                                         Val(applied).wrapping))])
  /\ UNCHANGED <<jobs, upload_dirs, outputs, runs, response, generated, requests, applied>>

ParserNext == call_flashcards_data

ParserSpec == ParserInit /\ [][ParserNext]_vars

(* ---- generate_flashcards applied to a response of the model ---- *)

(* the responses of the model: a document bare or in a fence, prose, a     *)
(* fenced block that holds no document, a fence that is never closed, with *)
(* and without a final newline, and the empty response                     *)
FlashcardResponses ==
  { <<document>> : document \in JsonDocuments }
    \cup { fenced(document, w) : document \in JsonDocuments, w \in Wrappings }
    \cup { <<Prose>>,
           <<Prose, NEWLINE, FENCE, NEWLINE, Prose, NEWLINE, FENCE>>,
           <<FENCE, "json", NEWLINE, CardsDocument>>,
           <<FENCE, "json", NEWLINE, CardsDocument, NEWLINE>>,
           <<>> }

(* the generated_content directory before the call: new, or holding the    *)
(* files of an earlier request                                             *)
Directories ==
  { <<>>,
    write(write(<<>>, "flashcards.json", JsonFile(StringCardsDocument)),
          "flashcards.txt", RawFile(<<StringCardsDocument>>)) }

FlashcardsInit ==
  /\ jobs = <<>>
  /\ upload_dirs = <<>>
  /\ outputs = <<>>
  /\ runs = EmptyBag
  /\ response = NoResponse
  /\ generated = <<>>
  /\ requests = <<>>
  /\ \E files \in Directories :
       \E reply \in [ok : {FALSE}, text : {<<>>}]
                      \cup [ok : {TRUE}, text : FlashcardResponses] :
         applied = Some([files |-> files, reply |-> reply])
  /\ returned = None

(* generated_files["flashcards"] = self.generate_flashcards(...) *)
call_generate_flashcards ==
  /\ IsNone(returned)
  /\ returned' = Some(generate_flashcards(Val(applied).files, Val(applied).reply))
  /\ UNCHANGED <<jobs, upload_dirs, outputs, runs, response, generated, requests, applied>>

FlashcardsNext == call_generate_flashcards

FlashcardsSpec == FlashcardsInit /\ [][FlashcardsNext]_vars

(* ---- a job of three images from submission to its results ---- *)

(* three distinct images, uploaded in an order that is not the sorted one *)
SubmittedFiles ==
  << [filename |-> [dir |-> "", stem |-> "z", suffix |-> ".PNG"], size |-> 1024],
     [filename |-> [dir |-> "", stem |-> "a", suffix |-> ".jpg"], size |-> 1024],
     [filename |-> [dir |-> "", stem |-> "b", suffix |-> ".gif"], size |-> 1024] >>

(* the state POST /upload leaves for these files: the job registered, the  *)
(* files in its directory and its run scheduled                            *)
SubmittedInit ==
  /\ jobs = (1 :> NewJob(SubmittedFiles))
  /\ upload_dirs = save_files((1 :> {}), 1, SubmittedFiles, 1).dirs
  /\ outputs = <<>>
  /\ runs = SetToBag({NewRun(1)})
  /\ response = [Respond("upload", 1, 200, "Files uploaded successfully")
                   EXCEPT !.total_images = Len(SubmittedFiles)]
  /\ generated = <<>>
  /\ requests = <<>>
  /\ applied = None
  /\ returned = None

(* the client polls the status and asks for the results while the run      *)
(* executes                                                                *)
SubmittedNext ==
  \/ get_job_status(1)
  \/ get_job_results(1)
  \/ \E run \in Scheduled : line27(run)
  \/ \E run \in Scheduled : line28(run)
  \/ \E run \in Scheduled : line31(run)
  \/ \E run \in Scheduled : line33(run)
  \/ \E run \in Scheduled : line34(run)
  \/ \E run \in Scheduled : line35(run)
  \/ \E run \in Scheduled : line36(run)
  \/ \E run \in Scheduled : line37(run)
  \/ \E run \in Scheduled : line40(run)
  \/ \E run \in Scheduled : line41(run)

SubmittedSpec == SubmittedInit /\ [][SubmittedNext]_vars

(* ---- compile_results applied to a list of items ---- *)

MaxItems == 3

(* an item without one of its fields *)
Without(item, key) == [f \in DOMAIN item \ {key} |-> item[f]]

(* the items handed to compile_results: those transcribe_image returns,    *)
(* and items of other callers that lack a field                            *)
Items ==
  LET a == [stem |-> "a", suffix |-> ".jpg"]
      b == [stem |-> "b", suffix |-> ".gif"]
      whole == { SuccessItem(a, "text"), SuccessItem(b, "more text"),
                 FailureItem(a, "service error"), FailureItem(b, "service error") }
  IN whole \cup { Without(item, key) :
                    item \in { SuccessItem(a, "text"), FailureItem(a, "service error") },
                    key \in {"filename", "text", "success", "error"} }

(* lines 225-241: whether a subscript of the item raises KeyError. Line    *)
(* 225 reads r['success'] of every item; the loop reads filename and, for  *)
(* a successful item, text, for a failed one, error.                       *)
KeyError(result) ==
  \/ "success" \notin DOMAIN result
  \/ "filename" \notin DOMAIN result
  \/ result.success /\ "text" \notin DOMAIN result
  \/ ~result.success /\ "error" \notin DOMAIN result

CompileInit ==
  /\ jobs = <<>>
  /\ upload_dirs = <<>>
  /\ outputs = <<>>
  /\ runs = EmptyBag
  /\ response = NoResponse
  /\ generated = <<>>
  /\ requests = <<>>
  /\ \E results \in SeqsUpTo(Items, MaxItems), timestamp \in Timestamps :
       applied = Some([results |-> results, title |-> 1, timestamp |-> timestamp])
  /\ returned = None

(* compiled_text = transcriber.compile_results(results, title) *)
call_compile_results ==
  /\ IsNone(returned)
  /\ returned' =
       LET results == Val(applied).results
       IN IF \E k \in 1..Len(results) : KeyError(results[k])
          THEN Some([raised |-> "KeyError", document |-> None])
          ELSE Some([raised |-> "",
                     document |-> Some(compile_results(results, Val(applied).title,
                                                       Val(applied).timestamp))])
  /\ UNCHANGED <<jobs, upload_dirs, outputs, runs, response, generated, requests, applied>>

CompileNext == call_compile_results

CompileSpec == CompileInit /\ [][CompileNext]_vars

(* ---- two jobs in the registry ---- *)

MaxPairJobs == 2

(* uploads of one image; the second name lies in the directory of job 1 *)
PairUploads ==
  { <<[filename |-> [dir |-> "", stem |-> "a", suffix |-> ".jpg"], size |-> 1024]>>,
    <<[filename |-> [dir |-> "../1", stem |-> "z", suffix |-> ".PNG"], size |-> 1024]>> }

(* uploads, the runs they schedule and reads, in any interleaving *)
PairNext ==
  \/ \E files \in PairUploads : upload_images_within(files, MaxPairJobs)
  \/ \E job_id \in JobIds : get_job_status(job_id)
  \/ \E job_id \in JobIds : get_job_results(job_id)
  \/ \E run \in Scheduled : line27(run)
  \/ \E run \in Scheduled : line28(run)
  \/ \E run \in Scheduled : line31(run)
  \/ \E run \in Scheduled : line33(run)
  \/ \E run \in Scheduled : line34(run)
  \/ \E run \in Scheduled : line35(run)
  \/ \E run \in Scheduled : line36(run)
  \/ \E run \in Scheduled : line37(run)
  \/ \E run \in Scheduled : line40(run)
  \/ \E run \in Scheduled : line41(run)

PairSpec == Init /\ [][PairNext]_vars

(* ---- image_transcriber.py : compress_image ---- *)

(* A Python float is an IEEE 754 double: a binary exponent e and a         *)
(* significand m of Precision bits, most significant first, m[1] = 1,      *)
(* with the value m[1] * 2^e + m[2] * 2^(e - 1) + ...; every operation     *)
(* rounds its exact result to the nearest such number, ties to the even    *)
(* one.                                                                    *)
Precision == 53

(* line 75 *)
max_dimension == 2400

(* the default of max_size_mb, in bytes: max_size_mb * 1024 * 1024 *)
max_size == 5 * 1024 * 1024

(* long division of r by d, for r < d: the bits found so far extended by   *)
(* the next n bits of the binary expansion of r / d, and the remainder     *)
(* they leave                                                              *)
RECURSIVE quotient_bits(_, _, _, _)
quotient_bits(r, d, n, bits) ==
  IF n = 0 THEN [bits |-> bits, rem |-> r]
  ELSE IF 2 * r >= d THEN quotient_bits(2 * r - d, d, n - 1, Append(bits, 1))
  ELSE quotient_bits(2 * r, d, n - 1, Append(bits, 0))

(* the next float above x *)
Increment(x) ==
  LET zeros == { i \in 1..Len(x.m) : x.m[i] = 0 }
      p == CHOOSE i \in zeros : \A j \in zeros : j <= i
  IN IF zeros = {}
     THEN [e |-> x.e + 1, m |-> [i \in 1..Len(x.m) |-> IF i = 1 THEN 1 ELSE 0]]
     ELSE [e |-> x.e,
           m |-> [i \in 1..Len(x.m) |-> IF i < p THEN x.m[i]
                                        ELSE IF i = p THEN 1 ELSE 0]]

(* a / b for positive integers a < 4096 and b < 65536 *)
fdiv(a, b) ==
  LET e == IF a >= b
           THEN CHOOSE k \in 0..12 : b * 2^k <= a /\ a < b * 2^(k + 1)
           ELSE 0 - (CHOOSE k \in 1..12 : a * 2^k >= b /\ a * 2^(k - 1) < b)
      n == IF e >= 0 THEN a ELSE a * 2^(0 - e)
      d == IF e >= 0 THEN b * 2^e ELSE b
      q == quotient_bits(n - d, d, Precision - 1, <<1>>)
      x == [e |-> e, m |-> q.bits]
  IN IF 2 * q.rem > d \/ (2 * q.rem = d /\ x.m[Precision] = 1)
     THEN Increment(x) ELSE x

(* the bits of bits * d, exactly: the positions from i down to 1 are       *)
(* still to be multiplied, carry comes from the positions after i and low  *)
(* holds their bits of the product                                         *)
RECURSIVE times_bits(_, _, _, _, _)
times_bits(bits, d, i, carry, low) ==
  IF i = 0
  THEN LET width == Cardinality({ l \in 0..16 : 2^l <= carry })
       IN [j \in 1..width |-> (carry \div 2^(width - j)) % 2] \o low
  ELSE times_bits(bits, d, i - 1, (bits[i] * d + carry) \div 2,
                  <<(bits[i] * d + carry) % 2>> \o low)

(* d * x for an integer 0 < d < 65536 and a float x *)
fmul(d, x) ==
  LET product == times_bits(x.m, d, Len(x.m), 0, <<>>)
      tail == SubSeq(product, Precision + 1, Len(product))
      y == [e |-> x.e + (Len(product) - Precision),
            m |-> SubSeq(product, 1, Precision)]
  IN IF /\ tail # <<>>
        /\ tail[1] = 1
        /\ (y.m[Precision] = 1 \/ \E j \in 2..Len(tail) : tail[j] = 1)
     THEN Increment(y) ELSE y

(* the integer a sequence of bits denotes *)
RECURSIVE nat(_)
nat(bits) ==
  IF bits = <<>> THEN 0
  ELSE 2 * nat(SubSeq(bits, 1, Len(bits) - 1)) + bits[Len(bits)]

(* int(x) for a float x >= 0: the fraction is dropped *)
int(x) == IF x.e < 0 THEN 0 ELSE nat(SubSeq(x.m, 1, x.e + 1))

(* lines 67-85 for an image of the given width and height, when the first  *)
(* encode has first_size bytes and an encode of the resized image          *)
(* second_size bytes: the number of encodes and of resizes, the size of    *)
(* the image encoded last, and the length of the bytes returned            *)
compress_image(width, height, first_size, second_size) ==
  LET by_width == fdiv(max_dimension, width)
      by_height == fdiv(max_dimension, height)
      less(x, y) == \/ x.e < y.e
                    \/ /\ x.e = y.e
                       /\ \E i \in 1..Precision :
                            /\ x.m[i] < y.m[i]
                            /\ \A j \in 1..(i - 1) : x.m[j] = y.m[j]
      ratio == IF less(by_height, by_width) THEN by_height ELSE by_width
      over == first_size > max_size
      resize == over /\ ratio.e < 0
  IN [encodes |-> IF over THEN 2 ELSE 1,
      resizes |-> IF resize THEN 1 ELSE 0,
      size |-> IF resize THEN <<int(fmul(width, ratio)), int(fmul(height, ratio))>>
               ELSE <<width, height>>,
      bytes |-> IF over THEN second_size ELSE first_size]

(* widths and heights of images: below, at and above the maximum           *)
(* dimension                                                               *)
Dimensions == {800, 1200, 2400, 2401, 3000, 3675, 4231, 4800, 6000, 8000}

(* lengths of an encoded image: below, at and above the size budget *)
EncodedSizes == {1024, max_size, max_size + 1}

CompressInit ==
  /\ jobs = <<>>
  /\ upload_dirs = <<>>
  /\ outputs = <<>>
  /\ runs = EmptyBag
  /\ response = NoResponse
  /\ generated = <<>>
  /\ requests = <<>>
  /\ \E width \in Dimensions, height \in Dimensions :
       \E first_size \in EncodedSizes, second_size \in EncodedSizes :
         applied = Some([width |-> width, height |-> height,
                         first_size |-> first_size, second_size |-> second_size])
  /\ returned = None

(* image_bytes = self.compress_image(image_path) *)
call_compress_image ==
  /\ IsNone(returned)
  /\ returned' = Some(compress_image(Val(applied).width, Val(applied).height,
                                     Val(applied).first_size, Val(applied).second_size))
  /\ UNCHANGED <<jobs, upload_dirs, outputs, runs, response, generated, requests, applied>>

CompressSpec == CompressInit /\ [][call_compress_image]_vars

(* ---- a job whose images fill a group of transcribe_batch ---- *)

(* batch_size images uploaded as one job *)
GroupFiles ==
  [k \in 1..batch_size |->
     [filename |-> [dir |-> "", stem |-> ImageStems[k], suffix |-> ".jpg"],
      size |-> 1024]]

(* the state POST /upload leaves for these files *)
GroupInit ==
  /\ jobs = (1 :> NewJob(GroupFiles))
  /\ upload_dirs = save_files((1 :> {}), 1, GroupFiles, 1).dirs
  /\ outputs = <<>>
  /\ runs = SetToBag({NewRun(1)})
  /\ response = [Respond("upload", 1, 200, "Files uploaded successfully")
                   EXCEPT !.total_images = Len(GroupFiles)]
  /\ generated = <<>>
  /\ requests = <<>>
  /\ applied = None
  /\ returned = None

(* the run scheduled by the upload, a transcription started by hand, and   *)
(* reads                                                                   *)
GroupNext ==
  \/ start_transcription(1)
  \/ get_job_status(1)
  \/ get_job_results(1)
  \/ \E run \in Scheduled : line27(run)
  \/ \E run \in Scheduled : line28(run)
  \/ \E run \in Scheduled : line31(run)
  \/ \E run \in Scheduled : line33(run)
  \/ \E run \in Scheduled : line34(run)
  \/ \E run \in Scheduled : line35(run)
  \/ \E run \in Scheduled : line36(run)
  \/ \E run \in Scheduled : line37(run)
  \/ \E run \in Scheduled : line40(run)
  \/ \E run \in Scheduled : line41(run)

GroupSpec == GroupInit /\ [][GroupNext]_vars

(* ---- the fence extraction applied to unclosed and to several blocks ---- *)

(* responses with fences, each with the tokens that follow its opening     *)
(* fence and json tag: a fence that is never closed, after any tag, with   *)
(* and without prose before it and a newline after it, ending in the       *)
(* document, a newline or prose; and an untagged block followed by a       *)
(* json-tagged block that is closed or not                                 *)
FenceResponses ==
  LET unclosed ==
        { [kind |-> "unclosed",
           text |-> (IF before THEN <<Prose, NEWLINE>> ELSE <<>>) \o <<FENCE>>
                      \o (IF tag = "" THEN <<>> ELSE <<tag>>) \o rest,
           remainder |-> (IF tag \in {"", "json"} THEN <<>> ELSE <<tag>>) \o rest] :
            before \in BOOLEAN, tag \in LanguageTags,
            rest \in { lead \o <<document>> \o ending :
                         lead \in {<<>>, <<NEWLINE>>},
                         document \in JsonDocuments,
                         ending \in {<<>>, <<NEWLINE>>, <<NEWLINE, Prose>>} }
                     \cup {<<>>} }
      blocks ==
        { [kind |-> IF closed THEN "two blocks" ELSE "unclosed",
           text |-> <<FENCE, NEWLINE, first, NEWLINE, FENCE, NEWLINE,
                      FENCE, "json", NEWLINE, second, NEWLINE>>
                      \o (IF closed THEN <<FENCE>> ELSE <<>>),
           remainder |-> <<NEWLINE, second, NEWLINE>>] :
            first \in JsonDocuments \cup {Prose}, second \in JsonDocuments,
            closed \in BOOLEAN }
  IN unclosed \cup blocks

ExtractInit ==
  /\ jobs = <<>>
  /\ upload_dirs = <<>>
  /\ outputs = <<>>
  /\ runs = EmptyBag
  /\ response = NoResponse
  /\ generated = <<>>
  /\ requests = <<>>
  /\ \E input \in FenceResponses : applied = Some(input)
  /\ returned = None

(* lines 69-78 run on the response *)
call_json_text ==
  /\ IsNone(returned)
  /\ returned' = Some(json_text(Val(applied).text))
  /\ UNCHANGED <<jobs, upload_dirs, outputs, runs, response, generated, requests, applied>>

ExtractSpec == ExtractInit /\ [][call_json_text]_vars

(* ---- properties of the job lifecycle ---- *)

(* the runs of job_id that have begun and not returned *)
ActiveRuns(job_id) ==
  LET active == { run \in Scheduled : run.job = job_id /\ run.pc # "l27" }
  IN BagCardinality([run \in active |-> CopiesIn(run, runs)])

Terminal == {COMPLETED, FAILED}

(* len(job["results"]), None counting as no result *)
ResultsLen(job) == IF IsNone(job.results) THEN 0 ELSE Len(Val(job.results))

(* C1: for every job id at most one run of process_transcription_job is    *)
(* active at a time, whatever the interleaving of upload, start requests   *)
(* and the scheduled runs.                                                 *)
C1_AtMostOneActiveRun ==
  \A job_id \in DOMAIN jobs : ActiveRuns(job_id) <= 1

(* C2: starting a run on a job that is not pending fails and leaves every  *)
(* field of the job unchanged, for the explicit start request (which       *)
(* answers 400 and schedules nothing) and for a scheduled run that begins  *)
(* only after the status has left pending.                                 *)
C2_StartOnNonPendingLeavesJob ==
  [][ /\ \A job_id \in DOMAIN jobs :
           (jobs[job_id].status # PENDING /\ start_transcription(job_id))
             => (response'.code = 400 /\ jobs' = jobs /\ runs' = runs)
      /\ \A run \in Scheduled :
           (jobs[run.job].status # PENDING /\ line27(run)) => jobs' = jobs
    ]_vars

LegalTransitions ==
  { <<PENDING, PROCESSING>>, <<PROCESSING, COMPLETED>>, <<PROCESSING, FAILED>> }

(* C3: every change of a job's status is pending -> processing,            *)
(* processing -> completed or processing -> failed; a new job starts       *)
(* pending; a completed or failed job never changes status again.          *)
C3_OnlyLegalTransitions ==
  [][ /\ \A job_id \in DOMAIN jobs :
           jobs'[job_id].status # jobs[job_id].status
             => <<jobs[job_id].status, jobs'[job_id].status>> \in LegalTransitions
      /\ \A job_id \in DOMAIN jobs' \ DOMAIN jobs : jobs'[job_id].status = PENDING
    ]_vars

(* C4: in every state a reader can observe, a job's compiled_text is       *)
(* non-null exactly when its status is completed.                          *)
C4_CompiledTextIffCompleted ==
  \A job_id \in DOMAIN jobs :
    (~IsNone(jobs[job_id].compiled_text)) <=> (jobs[job_id].status = COMPLETED)

(* C5: whenever a job's status is completed, its processed_images equals   *)
(* its total_images.                                                       *)
C5_CompletedProcessedAll ==
  \A job_id \in DOMAIN jobs :
    jobs[job_id].status = COMPLETED
      => jobs[job_id].processed_images = jobs[job_id].total_images

(* C6: in every reachable state and for every job,                         *)
(* processed_images <= total_images.                                       *)
C6_ProcessedAtMostTotal ==
  \A job_id \in DOMAIN jobs :
    jobs[job_id].processed_images <= jobs[job_id].total_images

(* C7: after every write of a run, from the write of status processing to  *)
(* the last write of the run, the length of the job's results list equals  *)
(* its processed_images.                                                   *)
C7_ResultsLenIsProcessed ==
  [][ \A run \in Scheduled :
        process_transcription_job(run)
          => ResultsLen(jobs'[run.job]) = jobs'[run.job].processed_images
    ]_vars

(* C8: results(jobId) answers NotFound (404) for an unknown id, NotReady   *)
(* (400) while the status is not completed, and once the status is         *)
(* completed it returns the job's items and compiled text without error,   *)
(* also while the completing run is still writing.                         *)
C8_ResultsContract ==
  response.op = "results" =>
    LET job_id == response.job
    IN IF job_id \notin DOMAIN jobs THEN response.code = 404
       ELSE IF jobs[job_id].status # COMPLETED THEN response.code = 400
       ELSE /\ response.code = 200
            /\ ~IsNone(response.results)
            /\ response.results = jobs[job_id].results
            /\ ~IsNone(response.compiled_text)
            /\ response.compiled_text = jobs[job_id].compiled_text

(* C9: status(jobId) is a pure read: for a known job it returns the        *)
(* current status, counts and message, for an unknown one NotFound (404),  *)
(* and in both cases the registry, the scheduled runs and the files are    *)
(* left as they were.                                                      *)
C9_StatusIsPureRead ==
  [][ response'.op = "status" =>
        /\ UNCHANGED <<jobs, upload_dirs, outputs, runs>>
        /\ IF response'.job \in DOMAIN jobs
           THEN /\ response'.code = 200
                /\ response'.status = jobs[response'.job].status
                /\ response'.processed_images = jobs[response'.job].processed_images
                /\ response'.total_images = jobs[response'.job].total_images
                /\ response'.message = jobs[response'.job].message
           ELSE response'.code = 404
    ]_vars

(* a status read answered while the run of the job is in progress *)
C9_Witness ==
  /\ response.op = "status"
  /\ response.code = 200
  /\ response.status = PROCESSING
  /\ response.message = "Processing images..."
  /\ ActiveRuns(response.job) = 1

(* C10: a job whose run has started (status processing) eventually has a   *)
(* terminal status, whether the per-item calls succeed or fail or the      *)
(* pipeline raises, under fair scheduling of the background runs.          *)
C10_ProcessingLeadsToTerminal ==
  \A job_id \in JobIds :
    (job_id \in DOMAIN jobs /\ jobs[job_id].status = PROCESSING)
      ~> (job_id \in DOMAIN jobs /\ jobs[job_id].status \in Terminal)

(* a run whose pipeline raised has ended with the job failed and no run    *)
(* left                                                                    *)
C10_Witness ==
  \E job_id \in DOMAIN jobs :
    /\ jobs[job_id].status = FAILED
    /\ jobs[job_id].message = "Error: save failed"
    /\ runs = EmptyBag

(* ---- properties of the failure paths ---- *)

(* the positions of a run that has written status completed at line 33 *)
WroteCompleted == {"l34", "l35", "l36", "l37"}

(* the run listed a directory without a valid image: process_images        *)
(* returned ([], ""), the only way the results of a run past line 31 are   *)
(* empty; and the run went on to write status completed                    *)
CompletedWithoutImages(run) == run.pc \in WroteCompleted /\ run.results = <<>>

(* C11: a run that finds zero valid images in the directory of its job     *)
(* moves the job to failed with a descriptive message; it never writes     *)
(* status completed.                                                       *)
C11_NoImagesFails ==
  \A run \in Scheduled : ~CompletedWithoutImages(run)

(* C12: when the pipeline of a run raises, the run leaves results and      *)
(* compiled_text of the job as they were, and when it returns the job has  *)
(* status failed and the message "Error: " followed by the description of  *)
(* the error.                                                              *)
C12_RaisedRunEndsFailed ==
  [][ \A run \in Scheduled :
        /\ (line40(run) \/ line41(run))
              => /\ jobs'[run.job].results = jobs[run.job].results
                 /\ jobs'[run.job].compiled_text = jobs[run.job].compiled_text
        /\ line41(run)
              => /\ jobs'[run.job].status = FAILED
                 /\ jobs'[run.job].message = ErrorMessage(run.exc)
    ]_vars

(* ---- properties of transcribe_batch ---- *)

(* the calls of the service that failed *)
FailedCalls(calls) == { i \in DOMAIN calls : ~calls[i].ok }

(* C13: transcribe_batch over N images, whatever subset of the per-image   *)
(* calls fails, raises only when a checkpoint write raises, never because  *)
(* of a per-image failure, and otherwise returns exactly N items in input  *)
(* order: item i carries the filename of input i, is failed with empty     *)
(* text and a non-null error exactly when call i failed, and is successful *)
(* with the returned text and null error otherwise.                        *)
C13_BatchItemPerInput ==
  ~IsNone(returned) =>
    LET arg == Val(applied)
        out == Val(returned)
        N == Len(arg.paths)
    IN /\ out.raised <=> arg.bad_writes # {}
       /\ ~out.raised =>
            /\ Len(out.results) = N
            /\ \A i \in 1..N :
                 /\ out.results[i].filename = arg.paths[i]
                 /\ out.results[i].success <=> arg.calls[i].ok
                 /\ arg.calls[i].ok =>
                      /\ out.results[i].text = arg.calls[i].text
                      /\ out.results[i].error = "None"
                 /\ ~arg.calls[i].ok =>
                      /\ out.results[i].text = ""
                      /\ out.results[i].error # "None"
                      /\ out.results[i].error = arg.calls[i].error

(* a batch of 5 images whose calls 2 and 5 failed has returned 5 items *)
C13_Witness ==
  /\ ~IsNone(returned)
  /\ Len(Val(applied).paths) = 5
  /\ FailedCalls(Val(applied).calls) = {2, 5}
  /\ Len(Val(returned).results) = 5
  /\ ~Val(returned).results[2].success
  /\ Val(returned).results[3].success

(* ---- properties of content generation ---- *)

(* the generator of a content type, given this reply of the service,       *)
(* raises nothing                                                          *)
Succeeds(content_type, reply) == generate(<<>>, content_type, reply).exc = ""

(* the job can be asked for content: completed, with a compiled text *)
Ready(job_id) ==
  /\ job_id \in DOMAIN jobs
  /\ jobs[job_id].status = COMPLETED
  /\ ~IsNone(jobs[job_id].compiled_text)
  /\ Val(jobs[job_id].compiled_text) # EmptyText

(* C14: in a request for several content types, the failure of one type    *)
(* does not prevent the other requested types from being generated: the    *)
(* file of every requested type whose generator succeeds is written, and   *)
(* the mapping returned holds exactly the types that succeeded.            *)
C14_FailureLeavesOtherTypes ==
  [][ \A job_id \in DOMAIN jobs, content_types \in SeqsUpTo(ContentType, MaxTypes) :
        \A replies \in RepliesTo(content_types) :
          (Ready(job_id) /\ generate_content(job_id, content_types, replies))
            => /\ \A i \in 1..Len(content_types) :
                    Succeeds(content_types[i], replies[i])
                      => /\ content_types[i] \in DOMAIN response'.files
                         /\ FilePath(content_types[i]) \in DOMAIN generated'[job_id]
               /\ \A content_type \in DOMAIN response'.files :
                    \E i \in 1..Len(content_types) :
                      /\ content_types[i] = content_type
                      /\ Succeeds(content_type, replies[i])
    ]_vars

(* C15: a content-generation request for a job whose status is not         *)
(* completed is answered NotReady (400) without any request to the         *)
(* external service and without writing any file; a request for an unknown *)
(* job id is answered NotFound (404), likewise.                            *)
C15_NotReadyAsksNothing ==
  [][ (response'.op = "generate"
         /\ (response'.job \notin DOMAIN jobs
               \/ jobs[response'.job].status # COMPLETED))
        => /\ response'.code = (IF response'.job \in DOMAIN jobs THEN 400 ELSE 404)
           /\ response'.files = <<>>
           /\ requests' = <<>>
           /\ generated' = generated
           /\ outputs' = outputs
           /\ jobs' = jobs
    ]_vars

(* a request made while the run of the job is in progress was refused *)
C15_Witness ==
  /\ response.op = "generate"
  /\ response.code = 400
  /\ response.detail = "Transcription must be completed first"
  /\ jobs[response.job].status = PROCESSING
  /\ requests = <<>>
  /\ generated = <<>>

(* the content-type tags a list of requested types names *)
Tags(content_types) == { content_types[i] : i \in 1..Len(content_types) }

(* C16: for a completed job and requested content types whose generators   *)
(* all succeed, the request is answered with a mapping whose key set is    *)
(* exactly the set of requested tags, each key naming the file of its      *)
(* type, which exists; a type requested twice is one key.                  *)
C16_KeysAreRequestedTags ==
  (/\ response.op = "generate"
   /\ Ready(response.job)
   /\ \A k \in 1..Len(requests) :
        Succeeds(requests[k].content_type, requests[k].reply))
    => /\ response.code = 200
       /\ Len(requests) = Len(response.content_types)
       /\ DOMAIN response.files = Tags(response.content_types)
       /\ \A content_type \in DOMAIN response.files :
            /\ response.files[content_type] = FilePath(content_type)
            /\ FilePath(content_type) \in DOMAIN generated[response.job]

(* flashcards and a video script were requested and both generated *)
C16_Witness ==
  /\ response.op = "generate"
  /\ response.code = 200
  /\ response.content_types = <<FLASHCARDS, VIDEO_SCRIPT>>
  /\ DOMAIN response.files = {FLASHCARDS, VIDEO_SCRIPT}
  /\ Len(requests) = 2

(* ---- properties of the flashcards parser ---- *)

(* C17: for every JSON document the flashcards parser yields the same      *)
(* parsed value for the bare document as for the document wrapped in a     *)
(* fenced code block, whether the fence carries the tag json, no tag or    *)
(* another language tag, and with or without prose around the block.       *)
C17_FencedParsesAsBare ==
  ~IsNone(returned) => Val(returned).fenced = Val(returned).bare

(* ---- properties of the generated files ---- *)

(* the content type whose generator raised in the request just answered:   *)
(* the last one the service was asked for                                  *)
FailedType == requests[Len(requests)].content_type

(* C18: after a content-generation request in which a content type failed, *)
(* no artifact of that type is visible to the caller: a type that had no   *)
(* file for download before the request has none after it, in particular   *)
(* no flashcards.json when flashcards generation raised after the JSON had *)
(* parsed.                                                                 *)
C18_FailedTypeLeavesNoArtifact ==
  [][ (/\ response'.op = "generate"
       /\ response'.code = 500
       /\ FilePath(FailedType') \notin DOMAIN GeneratedDir(response'.job))
        => FilePath(FailedType') \notin DOMAIN generated'[response'.job]
    ]_vars

(* the response handed to generate_flashcards is not JSON even after the   *)
(* fence is removed                                                        *)
Unparsable ==
  /\ ~IsNone(returned)
  /\ Val(applied).reply.ok
  /\ ~flashcards_data(Val(applied).reply.text).ok

(* C19: when the flashcards response cannot be parsed as JSON even after   *)
(* fence extraction, the raw response is written unchanged to the fallback *)
(* file flashcards.txt, the operation fails with the parse failure         *)
(* (MalformedModelOutput), and flashcards.json is not written: it is       *)
(* absent, or what it was before the call.                                 *)
C19_UnparsableKeepsRawResponse ==
  Unparsable =>
    LET before == Val(applied).files
        out == Val(returned)
    IN /\ out.exc = ParseFailure
       /\ out.path = ""
       /\ "flashcards.txt" \in DOMAIN out.files
       /\ out.files["flashcards.txt"] = RawFile(Val(applied).reply.text)
       /\ IF "flashcards.json" \in DOMAIN before
          THEN /\ "flashcards.json" \in DOMAIN out.files
               /\ out.files["flashcards.json"] = before["flashcards.json"]
          ELSE "flashcards.json" \notin DOMAIN out.files

(* a fenced response that is not JSON was kept, fences and prose included, *)
(* in a directory that holds no flashcards.json                            *)
C19_Witness ==
  /\ Unparsable
  /\ contains(Val(applied).reply.text, <<FENCE>>)
  /\ Val(returned).files["flashcards.txt"] = RawFile(Val(applied).reply.text)
  /\ "flashcards.json" \notin DOMAIN Val(returned).files

(* ---- properties of a job of three images ---- *)

(* the items the run of job 1 obtained: those it still holds, or those it  *)
(* stored before it returned                                               *)
Transcribed ==
  IF Scheduled # {} THEN (CHOOSE run \in Scheduled : TRUE).results
  ELSE IF IsNone(jobs[1].results) THEN <<>>
  ELSE Val(jobs[1].results)

(* the three transcriptions succeeded and the pipeline did not raise *)
AllSucceeded ==
  /\ Len(Transcribed) = 3
  /\ \A k \in 1..3 : Transcribed[k].success
  /\ \A run \in Scheduled : run.exc = ""

(* the section headers of a compiled text *)
SectionHeaders(text) ==
  { k \in 1..Len(text) : text[k].kind \in {"heading", "failed_heading"} }

StatusOrder == <<PENDING, PROCESSING, COMPLETED>>

(* C20: for a job submitted with 3 distinct images whose transcriptions    *)
(* all succeed, the status of the job only moves along pending,            *)
(* processing, completed, so successive status reads observe that order    *)
(* and nothing else; a status read that observes completed reports         *)
(* processed_images = 3; and a results request made once the status is     *)
(* completed returns 3 successful items in sorted filename order and a     *)
(* non-empty compiled text with exactly 3 section headers.                 *)
C20_ThreeImagesEndToEnd ==
  [][ /\ (AllSucceeded' /\ jobs'[1].status # jobs[1].status)
           => \E k \in 1..2 : /\ jobs[1].status = StatusOrder[k]
                              /\ jobs'[1].status = StatusOrder[k + 1]
      /\ (AllSucceeded' /\ response'.op = "status" /\ response'.status = COMPLETED)
           => response'.processed_images = 3
      /\ (AllSucceeded' /\ response'.op = "results" /\ jobs[1].status = COMPLETED)
           => /\ response'.code = 200
              /\ ~IsNone(response'.results)
              /\ Len(Val(response'.results)) = 3
              /\ \A k \in 1..3 : Val(response'.results)[k].success
              /\ [k \in 1..3 |-> Val(response'.results)[k].filename]
                   = image_paths(upload_dirs[1])
              /\ ~IsNone(response'.compiled_text)
              /\ Val(response'.compiled_text) # EmptyText
              /\ Cardinality(SectionHeaders(Val(response'.compiled_text))) = 3
    ]_vars

(* ---- properties of the submission of a job ---- *)

(* C21: an accepted upload of k files registers a new job under a fresh id *)
(* with status pending, total_images = k, processed_images = 0, results    *)
(* and compiled_text null, and performs no processing itself: within the   *)
(* upload the status does not leave pending, nothing is written to the     *)
(* output directories and the run it schedules has not begun.              *)
C21_SubmitRegistersPendingJob ==
  [][ (response'.op = "upload" /\ response'.code = 200)
        => /\ response'.job \notin DOMAIN jobs
           /\ response'.job \notin DOMAIN upload_dirs
           /\ DOMAIN jobs' = DOMAIN jobs \cup {response'.job}
           /\ jobs'[response'.job].status = PENDING
           /\ jobs'[response'.job].total_images = response'.total_images
           /\ jobs'[response'.job].processed_images = 0
           /\ IsNone(jobs'[response'.job].results)
           /\ IsNone(jobs'[response'.job].compiled_text)
           /\ outputs' = outputs
           /\ runs' = runs (+) SetToBag({NewRun(response'.job)})
    ]_vars

(* an upload of two files was accepted *)
C21_Witness ==
  /\ response.op = "upload"
  /\ response.code = 200
  /\ response.total_images = 2
  /\ response.job \in DOMAIN jobs
  /\ jobs[response.job].status = PENDING
  /\ jobs[response.job].total_images = 2

(* ---- properties of compile_results ---- *)

(* the k-th smallest element of a set of positions *)
Nth(S, k) == CHOOSE p \in S : Cardinality({ q \in S : q < p }) = k - 1

(* the document compile_results returned for the items it was given *)
Compiled == Val(Val(returned).document)

(* C22: compile_results renders exactly one section per item, in the order *)
(* of the input list, numbered from 1, each followed by the fixed          *)
(* delimiter; a successful item's section contains its text verbatim and a *)
(* failed item's section is marked failed and contains its error; the      *)
(* header's total count equals the number of items and its success count   *)
(* the number of items with success = true.                                *)
C22_OneSectionPerItem ==
  (~IsNone(returned) /\ Val(returned).raised = "")
    => LET results == Val(applied).results
           heads == SectionHeaders(Compiled)
       IN /\ Cardinality(heads) = Len(results)
          /\ Compiled[3].kind = "total"
          /\ Compiled[3].num = Len(results)
          /\ Compiled[4].kind = "successful"
          /\ Compiled[4].num
               = Cardinality({ k \in 1..Len(results) : results[k].success })
          /\ \A k \in 1..Len(results) :
               LET p == Nth(heads, k)
                   last == IF k = Len(results) THEN Len(Compiled)
                           ELSE Nth(heads, k + 1) - 1
                   inner == { Compiled[q].kind : q \in (p + 1)..last }
               IN /\ Compiled[p].num = k
                  /\ Compiled[p].filename = results[k].filename
                  /\ Compiled[last - 1].kind = "rule"
                  /\ Compiled[last - 1].str = "---"
                  /\ Compiled[last].kind = "blank"
                  /\ IF results[k].success
                     THEN /\ Compiled[p].kind = "heading"
                          /\ Compiled[p + 2].kind = "text"
                          /\ Compiled[p + 2].str = results[k].text
                          /\ inner = {"blank", "text", "rule"}
                     ELSE /\ Compiled[p].kind = "failed_heading"
                          /\ Compiled[p].str = "[FAILED]"
                          /\ Compiled[p + 1].kind = "error"
                          /\ Compiled[p + 1].str = results[k].error
                          /\ inner = {"error", "blank", "rule"}

(* a document of three sections, the second of a failed item *)
C22_Witness ==
  /\ ~IsNone(returned)
  /\ Val(returned).raised = ""
  /\ Len(Val(applied).results) = 3
  /\ Val(applied).results[1].success
  /\ ~Val(applied).results[2].success
  /\ Val(applied).results[3].success
  /\ Val(applied).results[1].filename # Val(applied).results[3].filename

(* C23: compile_results has no error outcome: given an item that lacks one *)
(* of the fields filename, text, success or error it still returns a       *)
(* document, in which the missing field is rendered as empty, rather than  *)
(* raising.                                                                *)
C23_MissingFieldRendersEmpty ==
  ~IsNone(returned)
    => /\ Val(returned).raised = ""
       /\ ~IsNone(Val(returned).document)
       /\ Cardinality(SectionHeaders(Compiled)) = Len(Val(applied).results)

(* ---- properties of the checkpoints of transcribe_batch ---- *)

(* C24: during transcribe_batch over N images with group size 10 a         *)
(* checkpoint is written exactly after the 10th, 20th, ... processed item  *)
(* (floor(N/10) checkpoints in total, none for a tail shorter than 10);    *)
(* each checkpoint is named by the running count k and holds exactly the   *)
(* first k results in order, so every checkpoint is a prefix of the list   *)
(* finally returned.                                                       *)
C24_CheckpointsArePrefixes ==
  (~IsNone(returned) /\ ~Val(returned).raised)
    => LET out == Val(returned)
           N == Len(Val(applied).paths)
       IN /\ Cardinality(out.backups) = N \div 10
          /\ { backup.count : backup \in out.backups }
               = { k \in 1..N : k % 10 = 0 }
          /\ \A backup \in out.backups :
               /\ Len(backup.results) = backup.count
               /\ backup.results = SubSeq(out.results, 1, backup.count)

(* a batch of 21 images, one of which failed, has returned with the        *)
(* checkpoints 10 and 20 written                                           *)
C24_Witness ==
  /\ ~IsNone(returned)
  /\ ~Val(returned).raised
  /\ Len(Val(returned).results) = 21
  /\ \E k \in 1..21 : ~Val(returned).results[k].success
  /\ { backup.count : backup \in Val(returned).backups } = {10, 20}

(* ---- properties of two jobs side by side ---- *)

(* the run executed a statement in this step *)
Stepped(run) == CopiesIn(run, runs') < CopiesIn(run, runs)

(* C25: a run for job A never changes any field of the registry record of  *)
(* a different job B, and registering a new job never changes the record   *)
(* of an existing job, under any interleaving of uploads, runs and reads:  *)
(* a record changes only in a step of a run of its own job.                *)
C25_JobsAreIndependent ==
  [][ /\ DOMAIN jobs \subseteq DOMAIN jobs'
      /\ \A B \in DOMAIN jobs :
           jobs'[B] # jobs[B] => \E run \in Scheduled : run.job = B /\ Stepped(run)
      /\ \A run \in Scheduled :
           Stepped(run) => \A B \in DOMAIN jobs \ {run.job} : jobs'[B] = jobs[B]
      /\ DOMAIN jobs' # DOMAIN jobs => \A B \in DOMAIN jobs : jobs'[B] = jobs[B]
    ]_vars

(* job 2 was registered after job 1 and its run has completed it while     *)
(* job 1 is still pending                                                  *)
C25_Witness ==
  /\ DOMAIN jobs = {1, 2}
  /\ jobs[1].status = PENDING
  /\ IsNone(jobs[1].results)
  /\ jobs[2].status = COMPLETED
  /\ ~IsNone(jobs[2].results)
  /\ jobs[2].message = "Transcription completed successfully"

(* ---- properties of compress_image ---- *)

(* floor(dimension * min(2400 / width, 2400 / height)) *)
Scaled(dimension, width, height) ==
  (dimension * 2400) \div (IF width >= height THEN width ELSE height)

(* C26: in compress_image, for every width and height, an image whose      *)
(* first encode exceeds the size budget is re-scaled at most once and      *)
(* re-encoded exactly once, whatever the size of the second encode; after  *)
(* that pass its longer dimension is at most 2400 px and both new          *)
(* dimensions are floor(dimension * min(2400/width, 2400/height)); an      *)
(* image with both dimensions at most 2400 is not re-scaled.               *)
C26_RescaledOnceWithinMaximum ==
  ~IsNone(returned)
    => LET in == Val(applied)
           out == Val(returned)
       IN /\ in.first_size > 5 * 1024 * 1024
               => /\ out.resizes <= 1
                  /\ out.encodes = 2
                  /\ out.size[1] <= 2400
                  /\ out.size[2] <= 2400
                  /\ out.size = <<Scaled(in.width, in.width, in.height),
                                  Scaled(in.height, in.width, in.height)>>
                       \/ (in.width <= 2400 /\ in.height <= 2400)
          /\ (in.width <= 2400 /\ in.height <= 2400)
               => out.resizes = 0 /\ out.size = <<in.width, in.height>>

(* ---- properties of a failed checkpoint ---- *)

(* C27: a failure while writing a checkpoint inside transcribe_batch is    *)
(* not absorbed: it propagates out of the batch, the results gathered so   *)
(* far are discarded, and the owning job ends in failed with no results or *)
(* compiled text stored: when the run that met the failure returns, the    *)
(* job is failed and its results and compiled_text are null.               *)
C27_CheckpointFailureFailsJob ==
  [][ \A run \in Scheduled :
        (run.exc = "checkpoint write failed" /\ run.pc = "l41" /\ Stepped(run))
          => /\ run.results = <<>>
             /\ jobs'[run.job].status = FAILED
             /\ IsNone(jobs'[run.job].results)
             /\ IsNone(jobs'[run.job].compiled_text)
    ]_vars

(* ---- properties of a rejected upload ---- *)

(* C28: an upload that is rejected (no files, a file with a disallowed     *)
(* extension, or a file larger than the maximum upload size) registers no  *)
(* job and schedules no run: the job registry is identical before and      *)
(* after the rejected request, even though files saved before the oversize *)
(* file was met remain on disk.                                            *)
C28_RejectedUploadRegistersNothing ==
  [][ (response'.op = "upload" /\ response'.code = 400)
        => /\ jobs' = jobs
           /\ runs' = runs
           /\ response'.detail \in {"No files provided", "Invalid file type",
                                    "File exceeds maximum size"}
    ]_vars

(* an upload was rejected for an oversize file after a.jpg had been saved: *)
(* the file is on disk in a directory that belongs to no job               *)
C28_Witness ==
  /\ response.op = "upload"
  /\ response.code = 400
  /\ response.detail = "File exceeds maximum size"
  /\ \E id \in DOMAIN upload_dirs \ DOMAIN jobs :
       \E saved \in upload_dirs[id] : saved.stem = "a"

(* ---- properties of content generation and the registry ---- *)

(* the outcomes of a content generation request *)
GenerateOutcomes ==
  {"Job not found", "Transcription must be completed first",
   "No transcription text available", "Content generated successfully"}

(* C29: the content-generation operation never modifies the job registry:  *)
(* for every outcome (NotFound, NotReady, empty compiled text, success,    *)
(* generator failure) each job's status, counts, results, compiled_text    *)
(* and message are the same after the request as before it.                *)
C29_GenerationLeavesRegistry ==
  [][ response'.op = "generate"
        => /\ jobs' = jobs
           /\ \/ response'.detail \in GenerateOutcomes
              \/ response'.code = 500
    ]_vars

(* a request for a completed job was answered with generated files *)
C29_Witness ==
  /\ response.op = "generate"
  /\ response.code = 200
  /\ response.files # <<>>
  /\ response.job \in DOMAIN jobs
  /\ jobs[response.job].status = COMPLETED
  /\ requests # <<>>

(* ---- properties of the fence extraction ---- *)

(* a text with its last character removed: a final newline goes, any other *)
(* final token is cut                                                      *)
Chopped(text) ==
  IF text = <<>> THEN <<>>
  ELSE IF text[Len(text)] = NEWLINE THEN SubSeq(text, 1, Len(text) - 1)
  ELSE SubSeq(text, 1, Len(text) - 1) \o <<Cut>>

(* C30, as stated: in the flashcards parser, when the response contains an *)
(* opening fence and no closing fence, the text handed to the JSON parser  *)
(* is the text that follows the opening fence (and its json tag, if any)   *)
(* with its last character removed; when the response contains both a      *)
(* json-tagged fence and an earlier untagged fence, the json-tagged block  *)
(* is the one extracted.                                                   *)
C30_UnclosedFenceDropsLastCharacter ==
  ~IsNone(returned)
    => /\ Val(applied).kind = "unclosed"
            => Val(returned) = Chopped(Val(applied).remainder)
       /\ Val(applied).kind = "two blocks"
            => Val(returned) = strip(Val(applied).remainder)

(* C30, amended: the text handed to the JSON parser is the text that       *)
(* follows the opening fence (and its json tag, if any) with its last      *)
(* character removed and then the whitespace at both ends stripped: never  *)
(* the whole response, and not the whole remainder unless the character    *)
(* removed was a newline; with a json-tagged fence after an untagged one   *)
(* the json-tagged block is the one extracted.                             *)
C30_UnclosedFenceDropsLastCharacterThenStrips ==
  ~IsNone(returned)
    => /\ Val(applied).kind = "unclosed"
            => /\ Val(returned) = strip(Chopped(Val(applied).remainder))
               /\ Val(returned) # Val(applied).text
               /\ (/\ Val(applied).remainder # <<>>
                   /\ Val(applied).remainder[Len(Val(applied).remainder)] # NEWLINE)
                    => Val(returned) # strip(Val(applied).remainder)
       /\ Val(applied).kind = "two blocks"
            => Val(returned) = strip(Val(applied).remainder)

(* the document after an unclosed json fence lost its closing brace and    *)
(* the newline before it was stripped                                      *)
C30_Witness ==
  /\ ~IsNone(returned)
  /\ Val(applied).kind = "unclosed"
  /\ Val(applied).text = <<FENCE, "json", NEWLINE, CardsDocument>>
  /\ Val(returned) = <<Cut>>
====
